---- MODULE Spec2Model ----
(***************************************************************************)
(* A model of agent_replay_debugger: the Recorder (recorder.py) that       *)
(* builds a Session (models.py) by appending Events, and the Replayer      *)
(* (replayer.py) that reconstructs state from a loaded Session.            *)
(*                                                                         *)
(* Python's Optional[T] is modelled as a sequence of length at most one:   *)
(* None is <<>>, a present value x is <<x>>.  A dict is a function; the    *)
(* empty dict is the function with the empty domain.                       *)
(***************************************************************************)
EXTENDS Integers, Sequences, FiniteSets, TLC

VARIABLES
    events,          \* session.events
    state_snapshots, \* session.state_snapshots: event id -> copy of the state
    ended_at,        \* session.ended_at
    event_counter,   \* Recorder._event_counter
    current_state,   \* Recorder._current_state
    event_stack,     \* Recorder._event_stack
    recording,       \* Recorder._recording
    frames,          \* the with-blocks (capture / span) that are open, outermost first
    exc,             \* an exception is propagating out of the innermost open block
    file,            \* the document written by Recorder.save
    rsession,        \* Replayer.session
    position,        \* Replayer._position
    breakpoints,     \* Replayer._breakpoints
    consumed,        \* the event the last successful step() returned (history)
    result           \* what the last Replayer call returned

vars == <<events, state_snapshots, ended_at, event_counter, current_state,
          event_stack, recording, frames, exc, file, rsession, position,
          breakpoints, consumed, result>>

recorderVars == <<events, state_snapshots, ended_at, event_counter,
                  current_state, event_stack, recording, frames, exc, file>>

replayerVars == <<rsession, position, breakpoints, consumed, result>>

----------------------------------------------------------------------------
(* Bounds of the model.                                                    *)

\* events per session when every Recorder operation is enabled
MaxEvents == 2
\* events per session when only spans and plain events are recorded
MaxSpanEvents == 7
\* events per session when only state changes and plain events are recorded
MaxStateEvents == 4
\* events per session when the state is also seeded with set_state
MaxSeededEvents == 2
\* capture() blocks open at once
MaxCaptures == 1
\* events of a recorded session the Replayer navigates
MaxNavEvents == 5
\* events, and distinct ids, of a loaded document the Replayer navigates
MaxLoadedEvents == 2
\* breakpoints set at once
MaxBreakpoints == 1

\* events of a session that is queried
MaxQueryEvents == 5

\* events of a session that is compared with another
MaxDiffEvents == 3

\* events of a session on which every Replayer operation is run
MaxReplayEvents == 2

\* events, and distinct ids, of a document that is loaded
MaxDocEvents == 2

\* events of a session whose tokens are summed
MaxTokenEvents == 3

\* events per session when spans exit in any order
MaxInterleavedEvents == 5

----------------------------------------------------------------------------
(* Values.                                                                 *)

None == <<>>
Some(x) == <<x>>

Keys == {"k", "j"}
Values == {1, 2}
SpanNames == {"A", "B"}
\* datetime.utcnow().isoformat() + "Z": the instants are not told apart
Now == "t"
\* a measured or caller-supplied duration
Elapsed == "d"
SessionId == "s"
Metadata == <<>>

EmptyDict == <<>>

\* bool(d) of a dict d
Truthy(d) == DOMAIN d # {}

\* d[k] = v of a dict d
DictSet(d, k, v) == [x \in DOMAIN d \cup {k} |-> IF x = k THEN v ELSE d[x]]

\* x or default
OrElse(x, default) == IF x = None THEN default ELSE x[1]

----------------------------------------------------------------------------
(* models.py                                                               *)

\* class EventType(Enum): member name -> value
EventType ==
    [INPUT |-> "input", OUTPUT |-> "output", LLM_CALL |-> "llm_call",
     TOOL_CALL |-> "tool_call", STATE_CHANGE |-> "state_change",
     ERROR |-> "error", LOG |-> "log", CUSTOM |-> "custom"]

Event(id, type, data, duration_ms, parent_id, tags) ==
    [id |-> id, timestamp |-> Now, type |-> type, data |-> data,
     duration_ms |-> duration_ms, parent_id |-> parent_id, tags |-> tags]

Session(sid, started, ended, evs, meta, snaps) ==
    [session_id |-> sid, started_at |-> started, ended_at |-> ended,
     events |-> evs, metadata |-> meta, state_snapshots |-> snaps]

\* the Session the Recorder holds
session ==
    Session(SessionId, Now, ended_at, events, Metadata, state_snapshots)

\* str(n) of a non-negative int, as the sequence of its decimal digits
Digits == <<"0", "1", "2", "3", "4", "5", "6", "7", "8", "9">>

RECURSIVE str(_)
str(n) ==
    IF n < Len(Digits)
    THEN <<Digits[n + 1]>>
    ELSE Append(str(n \div Len(Digits)), Digits[(n % Len(Digits)) + 1])

DigitValue(c) == CHOOSE d \in 0..(Len(Digits) - 1) : Digits[d + 1] = c

\* int(s) of a sequence of decimal digits
RECURSIVE int(_)
int(s) ==
    IF Len(s) = 1
    THEN DigitValue(s[1])
    ELSE int(SubSeq(s, 1, Len(s) - 1)) * Len(Digits) + DigitValue(s[Len(s)])

\* Event.to_dict
Event_to_dict(e) ==
    [id |-> e.id, timestamp |-> e.timestamp, type |-> EventType[e.type],
     data |-> e.data, duration_ms |-> e.duration_ms,
     parent_id |-> e.parent_id, tags |-> e.tags]

\* EventType(value): the member with that value
EventTypeOf(value) == CHOOSE m \in DOMAIN EventType : EventType[m] = value

\* a lookup that falls back to CUSTOM for a value no member has
EventType_or_custom(value) ==
    IF \E m \in DOMAIN EventType : EventType[m] = value
    THEN Some(EventTypeOf(value))
    ELSE Some("CUSTOM")

\* the call EventType(value): the member, or None for the ValueError the
\* Enum raises when no member has the value
EventType_call(value) ==
    IF \E m \in DOMAIN EventType : EventType[m] = value
    THEN Some(EventTypeOf(value))
    ELSE None

\* a from_dict that does not read parent_id and leaves the default
Event_from_dict_without_parent(d) ==
    [id |-> d.id, timestamp |-> d.timestamp,
     type |-> EventType_call(d.type)[1],
     data |-> d.data, duration_ms |-> d.duration_ms,
     parent_id |-> None, tags |-> d.tags]

\* Event.from_dict
Event_from_dict(d) ==
    [id |-> d.id, timestamp |-> d.timestamp,
     type |-> EventType_call(d.type)[1],
     data |-> d.data, duration_ms |-> d.duration_ms,
     parent_id |-> d.parent_id, tags |-> d.tags]

\* Session.to_dict
Session_to_dict(s) ==
    [session_id |-> s.session_id, started_at |-> s.started_at,
     ended_at |-> s.ended_at,
     events |-> [i \in 1..Len(s.events) |-> Event_to_dict(s.events[i])],
     metadata |-> s.metadata,
     state_snapshots |->
        [k \in {str(id) : id \in DOMAIN s.state_snapshots} |->
            s.state_snapshots[CHOOSE id \in DOMAIN s.state_snapshots : str(id) = k]]]

\* Event.from_dict raises: the only check it makes is the EventType call
Event_from_dict_raises(d) == EventType_call(d.type) = None

\* Session.from_dict raises: some Event.from_dict of its list does
Session_from_dict_raises(d) ==
    \E i \in 1..Len(d.events) : Event_from_dict_raises(d.events[i])

\* Session.from_dict
Session_from_dict(d) ==
    [session_id |-> d.session_id, started_at |-> d.started_at,
     ended_at |-> d.ended_at,
     events |-> [i \in 1..Len(d.events) |-> Event_from_dict(d.events[i])],
     metadata |-> d.metadata,
     state_snapshots |->
        [id \in {int(k) : k \in DOMAIN d.state_snapshots} |->
            d.state_snapshots[CHOOSE k \in DOMAIN d.state_snapshots : int(k) = id]]]

----------------------------------------------------------------------------
(* recorder.py                                                             *)

Init ==
    /\ events = <<>>
    /\ state_snapshots = EmptyDict
    /\ ended_at = None
    /\ event_counter = 0
    /\ current_state = EmptyDict
    /\ event_stack = <<>>
    /\ recording = FALSE
    /\ frames = <<>>
    /\ exc = FALSE
    /\ file = None
    /\ rsession = None
    /\ position = 0
    /\ breakpoints = <<>>
    /\ consumed = None
    /\ result = [op |-> "none", event_id |-> None, raised |-> FALSE,
                 value |-> EmptyDict]

\* _next_id without its increment
_next_id_no_increment(counter) == counter

\* Recorder._next_id: the counter after the increment
_next_id(counter) == counter + 1

\* the parent_id taken from the bottom of the span stack
ParentOfOutermost(stack) == IF stack # <<>> THEN Some(stack[1]) ELSE None

\* the parent_id _create_event gives an event: the top of the span stack
ParentOf(stack) == IF stack # <<>> THEN Some(stack[Len(stack)]) ELSE None

\* the snapshot stored under the id the next event will get
SnapshotKeyNext(event) == event.id + 1

\* the key under which _create_event stores the snapshot of an event
SnapshotKey(event) == event.id

\* session.events.insert(0, event)
PrependEvent(evs, event) == <<event>> \o evs

\* session.events.append(event)
AppendEvent(evs, event) == Append(evs, event)

\* Recorder._create_event with the span stack and the live state it reads
_create_event(stack, state, event_type, data, duration_ms, tags) ==
    LET event == Event(_next_id(event_counter), event_type, data, duration_ms,
                       ParentOf(stack), OrElse(tags, <<>>))
    IN /\ event_counter' = _next_id(event_counter)
       /\ events' = AppendEvent(events, event)
       /\ state_snapshots' =
            IF Truthy(state)
            THEN DictSet(state_snapshots, SnapshotKey(event), state)
            ELSE state_snapshots

\* a recording call that is refused outside capture()
CallableWhileRecording(max) ==
    /\ recording
    /\ ~exc
    /\ rsession = None
    /\ Len(events) < max

\* a call made by the program between the with-statements: no exception is
\* propagating, the session has not been handed to a Replayer
Callable(max) ==
    /\ ~exc
    /\ rsession = None
    /\ Len(events) < max

record_log(max) ==
    /\ Callable(max)
    /\ _create_event(event_stack, current_state, "LOG",
                     [level |-> "info", message |-> "m"], None, None)
    /\ UNCHANGED <<ended_at, current_state, event_stack, recording, frames,
                   exc, file, replayerVars>>

record_input(max) ==
    /\ Callable(max)
    /\ _create_event(event_stack, current_state, "INPUT",
                     [role |-> "user", content |-> "q"], None, None)
    /\ UNCHANGED <<ended_at, current_state, event_stack, recording, frames,
                   exc, file, replayerVars>>

record_output(max, content) ==
    /\ Callable(max)
    /\ _create_event(event_stack, current_state, "OUTPUT",
                     [role |-> "assistant", content |-> content], None, None)
    /\ UNCHANGED <<ended_at, current_state, event_stack, recording, frames,
                   exc, file, replayerVars>>

record_llm_call(max, tokens, duration_ms) ==
    /\ Callable(max)
    /\ _create_event(event_stack, current_state, "LLM_CALL",
                     [model |-> "m", prompt |-> "p", response |-> "r",
                      tokens |-> OrElse(tokens, EmptyDict)],
                     duration_ms, None)
    /\ UNCHANGED <<ended_at, current_state, event_stack, recording, frames,
                   exc, file, replayerVars>>

record_tool_call(max, duration_ms, success) ==
    /\ Callable(max)
    /\ _create_event(event_stack, current_state, "TOOL_CALL",
                     [tool |-> "f", args |-> EmptyDict, result |-> "r",
                      success |-> success],
                     duration_ms, None)
    /\ UNCHANGED <<ended_at, current_state, event_stack, recording, frames,
                   exc, file, replayerVars>>

\* the live state not yet updated when the event is created
StateBeforeChange(state, key, new_value) == state

\* the live state record_state_change hands to _create_event
StateAfterChange(state, key, new_value) == DictSet(state, key, new_value)

record_state_change(max, key, old_value, new_value) ==
    /\ Callable(max)
    /\ current_state' = StateAfterChange(current_state, key, new_value)
    /\ _create_event(event_stack, current_state', "STATE_CHANGE",
                     [key |-> key, old_value |-> old_value,
                      new_value |-> new_value], None, None)
    /\ UNCHANGED <<ended_at, event_stack, recording, frames, exc, file,
                   replayerVars>>

record_error(max) ==
    /\ Callable(max)
    /\ _create_event(event_stack, current_state, "ERROR",
                     [error |-> "boom"], None, Some(<<"error">>))
    /\ UNCHANGED <<ended_at, current_state, event_stack, recording, frames,
                   exc, file, replayerVars>>

\* a with-block of the program: capture() or span(name, tags)
CaptureFrame == [kind |-> "capture", name |-> "", tags |-> None, event_id |-> None]
SpanFrame(name, tags, id) ==
    [kind |-> "span", name |-> name, tags |-> tags, event_id |-> Some(id)]

Captures == {i \in 1..Len(frames) : frames[i].kind = "capture"}

Remove(seq, i) == [j \in 1..(Len(seq) - 1) |-> IF j < i THEN seq[j] ELSE seq[j + 1]]

\* capture(), up to the yield
capture_enter ==
    /\ ~exc
    /\ rsession = None
    /\ Cardinality(Captures) < MaxCaptures
    /\ recording' = TRUE
    /\ frames' = Append(frames, CaptureFrame)
    /\ UNCHANGED <<events, state_snapshots, ended_at, event_counter,
                   current_state, event_stack, exc, file, replayerVars>>

\* capture(), the finally clause: runs with frame i, with or without an
\* exception raised by the block
capture_exit(i) ==
    /\ rsession = None
    /\ i \in Captures
    /\ recording' = FALSE
    /\ ended_at' = Some(Now)
    /\ frames' = Remove(frames, i)
    /\ UNCHANGED <<events, state_snapshots, event_counter, current_state,
                   event_stack, exc, file, replayerVars>>

\* the id of the event after the span's start event
SpanPushNextId(event_id) == event_id + 1

\* the id span() pushes on the span stack
SpanPushId(event_id) == event_id

\* span(name, tags), up to the yield
span_enter(max, name, tags) ==
    /\ Callable(max)
    /\ _create_event(event_stack, current_state, "CUSTOM",
                     [span |-> name, status |-> "started"], None, tags)
    /\ event_stack' = Append(event_stack, SpanPushId(event_counter'))
    /\ frames' = Append(frames, SpanFrame(name, tags, event_counter'))
    /\ UNCHANGED <<ended_at, current_state, recording, exc, file,
                   replayerVars>>

\* self._event_stack.pop()
Pop(stack) == SubSeq(stack, 1, Len(stack) - 1)

\* the span stack when the pop is not in a finally clause
StackAfterExitNoFinally(stack, raised) == IF raised THEN stack ELSE Pop(stack)

\* the span stack after span()'s finally clause: the pop runs whether or not
\* the block raised
StackAfterExit(stack, raised) == Pop(stack)

\* the completed event created before the pop
StackBeforePop(before, after) == before

\* the span stack _create_event reads for the completed event: the pop has
\* already run
StackAtCompletion(before, after) == after

\* span(name, tags), the finally clause, for the open span frame i
span_exit(max, i) ==
    /\ rsession = None
    /\ Len(events) < max
    /\ i \in 1..Len(frames)
    /\ frames[i].kind = "span"
    /\ event_stack # <<>>
    /\ event_stack' = StackAfterExit(event_stack, exc)
    /\ _create_event(StackAtCompletion(event_stack, event_stack'),
                     current_state, "CUSTOM",
                     [span |-> frames[i].name, status |-> "completed",
                      span_start_id |-> frames[i].event_id[1]],
                     Some(Elapsed), frames[i].tags)
    /\ frames' = Remove(frames, i)
    /\ UNCHANGED <<ended_at, current_state, recording, exc, file,
                   replayerVars>>

set_state(key, value) ==
    /\ ~exc
    /\ rsession = None
    /\ current_state' = DictSet(current_state, key, value)
    /\ UNCHANGED <<events, state_snapshots, ended_at, event_counter,
                   event_stack, recording, frames, exc, file, replayerVars>>

\* the block of the innermost open with-statement raises
raise ==
    /\ ~exc
    /\ rsession = None
    /\ frames # <<>>
    /\ exc' = TRUE
    /\ UNCHANGED <<events, state_snapshots, ended_at, event_counter,
                   current_state, event_stack, recording, frames, file,
                   replayerVars>>

\* an except clause around the innermost open with-statement handles it
catch ==
    /\ exc
    /\ exc' = FALSE
    /\ UNCHANGED <<events, state_snapshots, ended_at, event_counter,
                   current_state, event_stack, recording, frames, file,
                   replayerVars>>

\* Recorder.save: stamps ended_at if it is unset, then writes the document
save ==
    /\ ~exc
    /\ rsession = None
    /\ ended_at' = IF ended_at = None THEN Some(Now) ELSE ended_at
    /\ file' = Some(Session_to_dict(
                     Session(SessionId, Now, ended_at', events, Metadata,
                             state_snapshots)))
    /\ UNCHANGED <<events, state_snapshots, event_counter, current_state,
                   event_stack, recording, frames, exc, replayerVars>>

----------------------------------------------------------------------------
(* replayer.py                                                             *)

\* Replayer.from_dict(recorder.to_dict())
from_dict ==
    /\ ~exc
    /\ rsession = None
    /\ rsession' = Some(Session_from_dict(Session_to_dict(session)))
    /\ position' = 0
    /\ breakpoints' = <<>>
    /\ consumed' = None
    /\ UNCHANGED <<recorderVars, result>>

\* Replayer.from_dict(data), and Replayer.from_file of a file holding data:
\* the exception of Session.from_dict propagates and no Replayer is made
load(data) ==
    /\ rsession = None
    /\ IF Session_from_dict_raises(data)
       THEN /\ result' = [op |-> "from_dict", event_id |-> None,
                          raised |-> TRUE, value |-> None, data |-> data]
            /\ UNCHANGED <<rsession, position, breakpoints, consumed>>
       ELSE /\ rsession' = Some(Session_from_dict(data))
            /\ position' = 0
            /\ breakpoints' = <<>>
            /\ consumed' = None
            /\ result' = [op |-> "from_dict", event_id |-> None,
                          raised |-> FALSE, value |-> None, data |-> data]
    /\ UNCHANGED recorderVars

\* the loop without its break: every event of the history is applied
RECURSIVE BuildStateNoBreak(_, _, _, _)
BuildStateNoBreak(evs, i, state, event_id) ==
    IF i > Len(evs)
    THEN state
    ELSE BuildStateNoBreak(
             evs, i + 1,
             IF evs[i].type = "STATE_CHANGE"
             THEN DictSet(state, evs[i].data.key, evs[i].data.new_value)
             ELSE state,
             event_id)

\* Replayer.get_state, the loop that builds the state from the history:
\* events[i..] applied to state, stopping after the event with id event_id
RECURSIVE BuildState(_, _, _, _)
BuildState(evs, i, state, event_id) ==
    IF i > Len(evs)
    THEN state
    ELSE LET event == evs[i]
             applied == IF event.type = "STATE_CHANGE"
                        THEN DictSet(state, event.data.key, event.data.new_value)
                        ELSE state
         IN IF event.id = event_id
            THEN applied
            ELSE BuildState(evs, i + 1, applied, event_id)

\* what Replayer.get_state(event_id) returns for session s at cursor pos
get_state_value(s, pos, event_id) ==
    IF event_id = None /\ pos = 0
    THEN EmptyDict
    ELSE LET id == IF event_id = None THEN s.events[pos].id ELSE event_id[1]
         IN IF id \in DOMAIN s.state_snapshots
            THEN s.state_snapshots[id]
            ELSE BuildState(s.events, 1, EmptyDict, id)

\* Replayer.get_state(event_id): it has no path that raises
get_state(event_id) ==
    /\ rsession # None
    /\ result' = [op |-> "get_state", event_id |-> event_id, raised |-> FALSE,
                  value |-> get_state_value(rsession[1], position, event_id)]
    /\ UNCHANGED <<recorderVars, rsession, position, breakpoints, consumed>>

\* Python's evs[i] for 0 <= i < len(evs)
At(evs, i) == evs[i + 1]

\* what a Replayer call returned, for a call that takes no event id
Returned(op, value) ==
    [op |-> op, event_id |-> None, raised |-> FALSE, value |-> value]

\* Replayer.has_next
has_next(s, pos) == pos < Len(s.events)

\* Replayer.has_prev
has_prev(pos) == pos > 0

\* Replayer.step
step ==
    /\ rsession # None
    /\ IF ~has_next(rsession[1], position)
       THEN /\ result' = Returned("step", None)
            /\ UNCHANGED <<position, consumed>>
       ELSE /\ result' = Returned("step", Some(At(rsession[1].events, position)))
            /\ position' = position + 1
            /\ consumed' = Some(At(rsession[1].events, position))
    /\ UNCHANGED <<recorderVars, rsession, breakpoints>>

\* step_back without its decrement
PositionUnmoved(pos) == pos

\* the cursor after Replayer.step_back's decrement
PositionBefore(pos) == pos - 1

\* Replayer.step_back
step_back ==
    /\ rsession # None
    /\ IF ~has_prev(position)
       THEN /\ result' = Returned("step_back", None)
            /\ UNCHANGED position
       ELSE /\ position' = PositionBefore(position)
            /\ result' = Returned("step_back",
                                  Some(At(rsession[1].events, position - 1)))
    /\ UNCHANGED <<recorderVars, rsession, breakpoints, consumed>>

\* current() reading events[_position], the index without the - 1
current_value_at_cursor(s, pos) ==
    IF pos = 0 \/ pos >= Len(s.events)
    THEN None
    ELSE Some(At(s.events, pos))

\* what Replayer.current returns
current_value(s, pos) ==
    IF pos = 0 THEN None ELSE Some(At(s.events, pos - 1))

\* Replayer.current
current ==
    /\ rsession # None
    /\ result' = Returned("current", current_value(rsession[1], position))
    /\ UNCHANGED <<recorderVars, rsession, position, breakpoints, consumed>>

\* what Replayer.peek returns
peek_value(s, pos) ==
    IF ~has_next(s, pos) THEN None ELSE Some(At(s.events, pos))

\* a peek that consumes the event it returns
peek_advancing ==
    /\ rsession # None
    /\ result' = Returned("peek", peek_value(rsession[1], position))
    /\ position' = IF has_next(rsession[1], position)
                    THEN position + 1 ELSE position
    /\ UNCHANGED <<recorderVars, rsession, breakpoints, consumed>>

\* Replayer.peek
peek ==
    /\ rsession # None
    /\ result' = Returned("peek", peek_value(rsession[1], position))
    /\ UNCHANGED <<recorderVars, rsession, position, breakpoints, consumed>>

\* a search that keeps the last event with the id
RECURSIVE FindLast(_, _, _)
FindLast(evs, i, event_id) ==
    IF i >= Len(evs)
    THEN None
    ELSE IF FindLast(evs, i + 1, event_id) # None
         THEN FindLast(evs, i + 1, event_id)
         ELSE IF At(evs, i).id = event_id THEN Some(i) ELSE None

\* Replayer.goto, the loop over enumerate(events) from index i: the index of
\* the first event with the id
RECURSIVE Find(_, _, _)
Find(evs, i, event_id) ==
    IF i >= Len(evs)
    THEN None
    ELSE IF At(evs, i).id = event_id
         THEN Some(i)
         ELSE Find(evs, i + 1, event_id)

\* the cursor two places after index i
AfterNext(i) == i + 2

\* the cursor immediately after index i
After(i) == i + 1

\* the index Replayer.goto(event_id, position) jumps to, if any
GotoIndex(s, event_id, index) ==
    IF event_id # None
    THEN Find(s.events, 0, event_id[1])
    ELSE IF index # None /\ 0 <= index[1] /\ index[1] < Len(s.events)
         THEN index
         ELSE None

\* Replayer.goto(event_id, position)
goto(event_id, index) ==
    /\ rsession # None
    /\ LET found == GotoIndex(rsession[1], event_id, index)
       IN /\ position' = IF found = None THEN position ELSE After(found[1])
          /\ result' =
               [op |-> "goto", event_id |-> event_id, raised |-> FALSE,
                index |-> index,
                value |-> IF found = None
                          THEN None
                          ELSE Some(At(rsession[1].events, found[1]))]
    /\ UNCHANGED <<recorderVars, rsession, breakpoints, consumed>>

\* Replayer.reset
reset ==
    /\ rsession # None
    /\ position' = 0
    /\ result' = Returned("reset", None)
    /\ UNCHANGED <<recorderVars, rsession, breakpoints, consumed>>

\* x in list
Contains(list, x) == \E i \in 1..Len(list) : list[i] = x

\* list.remove(x): the first x is taken out
ListRemove(list, x) ==
    LET first == CHOOSE i \in 1..Len(list) :
                     list[i] = x /\ \A j \in 1..(i - 1) : list[j] # x
    IN SubSeq(list, 1, first - 1) \o SubSeq(list, first + 1, Len(list))

\* Replayer.add_breakpoint
add_breakpoint(max, event_id) ==
    /\ rsession # None
    /\ Len(breakpoints) < max
    /\ breakpoints' = IF ~Contains(breakpoints, event_id)
                       THEN Append(breakpoints, event_id)
                       ELSE breakpoints
    /\ result' = [op |-> "add_breakpoint", event_id |-> Some(event_id),
                  raised |-> FALSE, value |-> None]
    /\ UNCHANGED <<recorderVars, rsession, position, consumed>>

\* Replayer.remove_breakpoint
remove_breakpoint(event_id) ==
    /\ rsession # None
    /\ breakpoints' = IF Contains(breakpoints, event_id)
                       THEN ListRemove(breakpoints, event_id)
                       ELSE breakpoints
    /\ result' = [op |-> "remove_breakpoint", event_id |-> Some(event_id),
                  raised |-> FALSE, value |-> None]
    /\ UNCHANGED <<recorderVars, rsession, position, consumed>>

\* a loop that stops in front of the breakpoint event
RECURSIVE ContinueLoopBefore(_, _, _, _)
ContinueLoopBefore(s, pos, bps, last) ==
    IF ~has_next(s, pos)
    THEN [position |-> pos, consumed |-> last, value |-> None]
    ELSE IF Contains(bps, At(s.events, pos).id)
         THEN [position |-> pos, consumed |-> last,
               value |-> Some(At(s.events, pos))]
         ELSE ContinueLoopBefore(s, pos + 1, bps, Some(At(s.events, pos)))

\* Replayer.continue_to_breakpoint, the while loop from cursor pos: the
\* cursor, the last event step() returned and the value returned at its end
RECURSIVE ContinueLoop(_, _, _, _)
ContinueLoop(s, pos, bps, last) ==
    IF ~has_next(s, pos)
    THEN [position |-> pos, consumed |-> last, value |-> None]
    ELSE LET event == At(s.events, pos)
         IN IF Contains(bps, event.id)
            THEN [position |-> pos + 1, consumed |-> Some(event),
                  value |-> Some(event)]
            ELSE ContinueLoop(s, pos + 1, bps, Some(event))

\* Replayer.continue_to_breakpoint
continue_to_breakpoint ==
    /\ rsession # None
    /\ LET end == ContinueLoop(rsession[1], position, breakpoints, consumed)
       IN /\ position' = end.position
          /\ consumed' = end.consumed
          /\ result' = Returned("continue_to_breakpoint", end.value)
    /\ UNCHANGED <<recorderVars, rsession, breakpoints>>

\* the members of a list
Elems(list) == {list[i] : i \in 1..Len(list)}

\* str.lower() of one character, over the letters the model uses
LowerChar(c) ==
    CASE c = "A" -> "a"
      [] c = "B" -> "b"
      [] c = "T" -> "t"
      [] c = "O" -> "o"
      [] c = "L" -> "l"
      [] OTHER -> c

\* str.lower()
RECURSIVE lower(_)
lower(text) ==
    IF text = ""
    THEN ""
    ELSE LowerChar(SubSeq(text, 1, 1)) \o lower(SubSeq(text, 2, Len(text)))

\* sub in text, of two strings
In(sub, text) ==
    \E i \in 1..(Len(text) - Len(sub) + 1) :
        SubSeq(text, i, i + Len(sub) - 1) = sub

\* json.dumps of a dict with at most one key, its value a string
json_dumps(d) ==
    IF DOMAIN d = {}
    THEN "{}"
    ELSE LET k == CHOOSE k \in DOMAIN d : TRUE
         IN "{\"" \o k \o "\": \"" \o d[k] \o "\"}"

\* what Replayer.filter returns: event_type is a member name or None, tags a
\* list or None, search a string or None; a given value that is falsy (an
\* empty list, an empty string) skips its branch as None does
filter_value(s, event_type, tags, search) ==
    LET by_type == IF event_type # None
                   THEN SelectSeq(s.events,
                                  LAMBDA e : e.type = event_type[1])
                   ELSE s.events
        by_tags == IF tags # None /\ tags[1] # <<>>
                   THEN SelectSeq(by_type,
                                  LAMBDA e : \E t \in Elems(tags[1]) :
                                                 t \in Elems(e.tags))
                   ELSE by_type
    IN IF search # None /\ search[1] # ""
       THEN SelectSeq(by_tags,
                      LAMBDA e : In(lower(search[1]),
                                    lower(json_dumps(e.data))))
       ELSE by_tags

\* Replayer.filter
filter(event_type, tags, search) ==
    /\ rsession # None
    /\ result' = [op |-> "filter", event_id |-> None, raised |-> FALSE,
                  value |-> filter_value(rsession[1], event_type, tags,
                                         search),
                  event_type |-> event_type, tags |-> tags,
                  search |-> search]
    /\ UNCHANGED <<recorderVars, rsession, position, breakpoints, consumed>>

\* Replayer.get_llm_calls
get_llm_calls ==
    /\ rsession # None
    /\ result' = Returned("get_llm_calls",
                          filter_value(rsession[1], Some("LLM_CALL"), None,
                                       None))
    /\ UNCHANGED <<recorderVars, rsession, position, breakpoints, consumed>>

\* Replayer.get_tool_calls
get_tool_calls ==
    /\ rsession # None
    /\ result' = Returned("get_tool_calls",
                          filter_value(rsession[1], Some("TOOL_CALL"), None,
                                       None))
    /\ UNCHANGED <<recorderVars, rsession, position, breakpoints, consumed>>

\* Replayer.get_errors
get_errors ==
    /\ rsession # None
    /\ result' = Returned("get_errors",
                          filter_value(rsession[1], Some("ERROR"), None,
                                       None))
    /\ UNCHANGED <<recorderVars, rsession, position, breakpoints, consumed>>

\* Replayer.iter_events, as the list of the events it yields
iter_events ==
    /\ rsession # None
    /\ result' = Returned("iter_events", rsession[1].events)
    /\ UNCHANGED <<recorderVars, rsession, position, breakpoints, consumed>>

\* d.get(k, default) of a dict d
DictGet(d, k, default) == IF k \in DOMAIN d THEN d[k] ELSE default

\* the events without the test of their type
OfAnyType(evs, type) == evs

\* the events of one type, in order
OfType(evs, type) == SelectSeq(evs, LAMBDA e : e.type = type)

\* the sum, over the given LLM calls, of data.get("tokens", {}).get(key, 0)
RECURSIVE SumTokens(_, _)
SumTokens(calls, key) ==
    IF calls = <<>>
    THEN 0
    ELSE DictGet(DictGet(Head(calls).data, "tokens", EmptyDict), key, 0)
           + SumTokens(Tail(calls), key)

\* Session.get_total_tokens
get_total_tokens(s) ==
    LET total_input == SumTokens(OfType(s.events, "LLM_CALL"), "input")
        total_output == SumTokens(OfType(s.events, "LLM_CALL"), "output")
    IN [input |-> total_input, output |-> total_output,
        total |-> total_input + total_output]

\* Session.duration_ms: None for a session that has not ended
duration_ms_of(s) == IF s.ended_at = None THEN None ELSE Some(Elapsed)

\* what Replayer.get_summary returns
get_summary_value(s) ==
    [session_id |-> s.session_id, started_at |-> s.started_at,
     ended_at |-> s.ended_at, duration_ms |-> duration_ms_of(s),
     total_events |-> Len(s.events),
     llm_calls |-> Len(OfType(s.events, "LLM_CALL")),
     tool_calls |-> Len(OfType(s.events, "TOOL_CALL")),
     errors |-> Len(OfType(s.events, "ERROR")),
     total_tokens |-> get_total_tokens(s), metadata |-> s.metadata]

\* Replayer.get_summary
get_summary ==
    /\ rsession # None
    /\ result' = Returned("get_summary", get_summary_value(rsession[1]))
    /\ UNCHANGED <<recorderVars, rsession, position, breakpoints, consumed>>

\* the two outputs compared whole, ids and timestamps included
ComparedWhole(e) == e

\* what diff compares of an output event: its data
Compared(e) == e.data

\* the entries diff appends for the pairs zip(self_outputs, other_outputs)
\* yields from index i on
RECURSIVE OutputDiffs(_, _, _)
OutputDiffs(self_outputs, other_outputs, i) ==
    IF i >= Len(self_outputs) \/ i >= Len(other_outputs)
    THEN <<>>
    ELSE LET s == At(self_outputs, i)
             o == At(other_outputs, i)
         IN (IF Compared(s) # Compared(o)
             THEN <<[index |-> i, self |-> s.data, other |-> o.data]>>
             ELSE <<>>)
              \o OutputDiffs(self_outputs, other_outputs, i + 1)

\* what Replayer.diff returns for the sessions of self and of other; the two
\* event counts are those of dicts keyed by event id
diff_value(s, o) ==
    LET output_diffs == OutputDiffs(OfType(s.events, "OUTPUT"),
                                    OfType(o.events, "OUTPUT"), 0)
    IN [self_events |-> Cardinality({s.events[i].id : i \in 1..Len(s.events)}),
        other_events |-> Cardinality({o.events[i].id : i \in 1..Len(o.events)}),
        self_tokens |-> get_total_tokens(s),
        other_tokens |-> get_total_tokens(o),
        output_diffs |-> output_diffs,
        same_outputs |-> (Len(output_diffs) = 0)]

\* Replayer.diff(other), other a Replayer of the session o
diff(o) ==
    /\ rsession # None
    /\ result' = [op |-> "diff", event_id |-> None, raised |-> FALSE,
                  value |-> diff_value(rsession[1], o), other |-> o]
    /\ UNCHANGED <<recorderVars, rsession, position, breakpoints, consumed>>

----------------------------------------------------------------------------
(* Specifications.                                                         *)

\* the innermost open with-statement
Top == Len(frames)

\* every Recorder operation
Next ==
    \/ record_input(MaxEvents)
    \/ record_output(MaxEvents, "a")
    \/ record_llm_call(MaxEvents, None, Some(Elapsed))
    \/ record_tool_call(MaxEvents, None, TRUE)
    \/ \E v \in Values : record_state_change(MaxEvents, "k", None, v)
    \/ record_error(MaxEvents)
    \/ record_log(MaxEvents)
    \/ capture_enter
    \/ capture_exit(Top)
    \/ span_enter(MaxEvents, "A", Some(<<"t">>))
    \/ span_exit(MaxEvents, Top)
    \/ \E v \in Values : set_state("k", v)
    \/ save
    \/ raise
    \/ catch

Spec == Init /\ [][Next]_vars

\* properly nested spans around plain events, with blocks that may raise
NextSpan ==
    \/ \E n \in SpanNames : span_enter(MaxSpanEvents, n, None)
    \/ span_exit(MaxSpanEvents, Top)
    \/ record_log(MaxSpanEvents)
    \/ raise
    \/ catch

SpecSpan == Init /\ [][NextSpan]_vars

\* a recording of state changes and seeded state, handed to a Replayer
NextState ==
    \/ \E k \in Keys, v \in Values :
          record_state_change(MaxSeededEvents, k, None, v)
    \/ \E k \in Keys, v \in Values : set_state(k, v)
    \/ record_log(MaxSeededEvents)
    \/ from_dict
    \/ \E e \in {None} \cup {Some(id) : id \in 1..(MaxSeededEvents + 1)} :
          get_state(e)

SpecState == Init /\ [][NextState]_vars

\* a recording whose state changes only through record_state_change
NextHistory ==
    \/ \E k \in Keys, v \in Values :
          record_state_change(MaxStateEvents, k, None, v)
    \/ record_log(MaxStateEvents)
    \/ from_dict
    \/ \E e \in {None} \cup {Some(id) : id \in 1..(MaxStateEvents + 1)} :
          get_state(e)

SpecHistory == Init /\ [][NextHistory]_vars

\* a Recorder that records nothing: the Replayer is given its Session
NoRecorder ==
    /\ events = <<>>
    /\ state_snapshots = EmptyDict
    /\ ended_at = None
    /\ event_counter = 0
    /\ current_state = EmptyDict
    /\ event_stack = <<>>
    /\ recording = FALSE
    /\ frames = <<>>
    /\ exc = FALSE
    /\ file = None

\* Replayer.__init__(session)
Replayer(s) ==
    /\ rsession = Some(s)
    /\ position = 0
    /\ breakpoints = <<>>
    /\ consumed = None
    /\ result = [op |-> "none", event_id |-> None, raised |-> FALSE,
                 value |-> EmptyDict]

\* a log event with the given id
PlainEvent(id) ==
    Event(id, "LOG", [level |-> "info", message |-> "m"], None, None, <<>>)

\* a finished session of log events with the given ids, without snapshots
SessionWithIds(ids) ==
    Session(SessionId, Now, Some(Now),
            [i \in 1..Len(ids) |-> PlainEvent(ids[i])], Metadata, EmptyDict)

\* the ids a Recorder gives (1..n), and the ids of loaded documents, which
\* Session.from_dict accepts in any order and with repeats
NavIdSeqs ==
    {[i \in 1..n |-> i] : n \in 0..MaxNavEvents}
      \cup UNION {[1..n -> 1..MaxLoadedEvents] : n \in 0..MaxLoadedEvents}

InitNav ==
    /\ NoRecorder
    /\ \E ids \in NavIdSeqs : Replayer(SessionWithIds(ids))

\* the cursor and the breakpoints of a Replayer
NextNav ==
    \/ step
    \/ step_back
    \/ current
    \/ peek
    \/ \E id \in 1..(Len(rsession[1].events) + 1) : goto(Some(id), None)
    \/ \E i \in (0 - 1)..Len(rsession[1].events) : goto(None, Some(i))
    \/ goto(None, None)
    \/ reset
    \/ \E id \in 1..(Len(rsession[1].events) + 1) :
          add_breakpoint(MaxBreakpoints, id)
    \/ \E id \in 1..(Len(rsession[1].events) + 1) : remove_breakpoint(id)
    \/ continue_to_breakpoint

SpecNav == InitNav /\ [][NextNav]_vars

\* the events of the sessions that are queried: a tool call tagged "x", an
\* LLM call without tags, an error tagged "error"
QueryEvent(kind, id) ==
    CASE kind = "tool" ->
           Event(id, "TOOL_CALL", [tool |-> "Ab"], None, None, <<"x">>)
      [] kind = "llm" ->
           Event(id, "LLM_CALL", [model |-> "b"], None, None, <<>>)
      [] kind = "error" ->
           Event(id, "ERROR", [error |-> "a"], None, None, <<"error">>)

QueryKinds == {"tool", "llm", "error"}

\* a finished session with one event per kind, ids 1..n, without snapshots
SessionOfKinds(kinds) ==
    Session(SessionId, Now, Some(Now),
            [i \in 1..Len(kinds) |-> QueryEvent(kinds[i], i)], Metadata,
            EmptyDict)

QuerySessions ==
    {SessionOfKinds(kinds) :
        kinds \in UNION {[1..n -> QueryKinds] : n \in 0..MaxQueryEvents}}

\* the arguments filter is called with
TypeArgs == {None, Some("TOOL_CALL"), Some("LLM_CALL"), Some("ERROR")}
TagArgs == {None, Some(<<>>), Some(<<"x">>), Some(<<"error", "x">>)}
SearchArgs == {None, Some(""), Some("aB"), Some("TOOL")}

InitQuery ==
    /\ NoRecorder
    /\ \E s \in QuerySessions : Replayer(s)

\* the queries that select events
NextQuery ==
    \/ \E event_type \in TypeArgs, tags \in TagArgs, search \in SearchArgs :
          filter(event_type, tags, search)
    \/ get_llm_calls
    \/ get_tool_calls
    \/ get_errors

SpecQuery == InitQuery /\ [][NextQuery]_vars

\* the events of the sessions that are compared: an output "a", an output
\* "b", an LLM call with token counts
DiffEvent(kind, id) ==
    CASE kind = "a" ->
           Event(id, "OUTPUT", [role |-> "assistant", content |-> "a"], None,
                 None, <<>>)
      [] kind = "b" ->
           Event(id, "OUTPUT", [role |-> "assistant", content |-> "b"], None,
                 None, <<>>)
      [] kind = "llm" ->
           Event(id, "LLM_CALL",
                 [model |-> "m", prompt |-> "p", response |-> "r",
                  tokens |-> [input |-> 1, output |-> 2]], None, None, <<>>)

DiffKinds == {"a", "b", "llm"}

\* the finished sessions of up to max such events, ids 1..n
DiffSessions(max) ==
    {Session(SessionId, Now, Some(Now),
             [i \in 1..Len(kinds) |-> DiffEvent(kinds[i], i)], Metadata,
             EmptyDict) :
        kinds \in UNION {[1..n -> DiffKinds] : n \in 0..max}}

InitDiff ==
    /\ NoRecorder
    /\ \E s \in DiffSessions(MaxDiffEvents) : Replayer(s)

\* the comparison of the session with another
NextDiff ==
    \E o \in DiffSessions(MaxDiffEvents) : diff(o)

SpecDiff == InitDiff /\ [][NextDiff]_vars

\* the sessions a Replayer is given when all of its operations are run
ReplaySessions ==
    {SessionOfKinds(kinds) :
        kinds \in UNION {[1..n -> {"tool", "llm"}] : n \in 0..MaxReplayEvents}}

\* the sessions of the other Replayer of a diff
OtherSessions == {SessionOfKinds(<<>>), SessionOfKinds(<<"tool">>)}

InitReplay ==
    /\ NoRecorder
    /\ \E s \in ReplaySessions : Replayer(s)

\* every Replayer operation
NextReplay ==
    \/ step
    \/ step_back
    \/ current
    \/ peek
    \/ \E id \in 1..(Len(rsession[1].events) + 1) : goto(Some(id), None)
    \/ \E i \in (0 - 1)..Len(rsession[1].events) : goto(None, Some(i))
    \/ reset
    \/ \E id \in 1..(Len(rsession[1].events) + 1) :
          add_breakpoint(MaxBreakpoints, id)
    \/ \E id \in 1..(Len(rsession[1].events) + 1) : remove_breakpoint(id)
    \/ continue_to_breakpoint
    \/ \E event_id \in {None, Some(1)} : get_state(event_id)
    \/ \E event_type \in {None, Some("TOOL_CALL")},
          tags \in {None, Some(<<"x">>)}, search \in {None, Some("aB")} :
          filter(event_type, tags, search)
    \/ get_llm_calls
    \/ get_tool_calls
    \/ get_errors
    \/ iter_events
    \/ get_summary
    \/ \E o \in OtherSessions : diff(o)

SpecReplay == InitReplay /\ [][NextReplay]_vars

\* the type tags of the events of a document: two known ones and one that
\* no EventType member has
DocTags == {"log", "custom", "bogus"}

\* an event of a document
DocEvent(id, tag) ==
    [id |-> id, timestamp |-> Now, type |-> tag, data |-> EmptyDict,
     duration_ms |-> None, parent_id |-> None, tags |-> <<>>]

\* the session documents of up to MaxDocEvents events, their ids in any order
\* and with repeats
Documents ==
    {[session_id |-> SessionId, started_at |-> Now, ended_at |-> Some(Now),
      events |-> [i \in 1..Len(ids) |-> DocEvent(ids[i], tags[i])],
      metadata |-> Metadata, state_snapshots |-> EmptyDict] :
        <<ids, tags>> \in UNION {[1..n -> 1..MaxDocEvents]
                                   \X [1..n -> DocTags] :
                                       n \in 0..MaxDocEvents}}

\* documents are loaded and the Replayer made of them is used
NextLoad ==
    \/ \E data \in Documents : load(data)
    \/ step
    \/ step_back
    \/ current
    \/ reset
    \/ get_summary
    \/ \E o \in OtherSessions : diff(o)

SpecLoad == Init /\ [][NextLoad]_vars

\* the token mappings of the LLM calls that are summed: the three of the
\* example, an empty mapping (tokens not given to record_llm_call), and a
\* mapping without its output count
TokenMaps ==
    {[input |-> 10, output |-> 5], [input |-> 0, output |-> 0],
     [input |-> 7, output |-> 3], EmptyDict, [input |-> 7]}

\* the events of the sessions whose tokens are summed: LLM calls with each
\* token mapping, an LLM call of a document without a tokens entry, and an
\* event of another type that carries a tokens entry
TokenEvents(id) ==
    {Event(id, "LLM_CALL",
           [model |-> "m", prompt |-> "p", response |-> "r", tokens |-> t],
           None, None, <<>>) : t \in TokenMaps}
      \cup {Event(id, "LLM_CALL", [model |-> "m"], None, None, <<>>),
            Event(id, "CUSTOM", [tokens |-> [input |-> 1, output |-> 1]],
                  None, None, <<>>)}

\* the lists of up to n such events, ids 1..n
RECURSIVE TokenEventLists(_)
TokenEventLists(n) ==
    IF n = 0
    THEN {<<>>}
    ELSE TokenEventLists(n - 1)
           \cup {Append(evs, e) :
                    evs \in {l \in TokenEventLists(n - 1) : Len(l) = n - 1},
                    e \in TokenEvents(n)}

InitTokens ==
    /\ NoRecorder
    /\ \E evs \in TokenEventLists(MaxTokenEvents) :
          Replayer(Session(SessionId, Now, Some(Now), evs, Metadata,
                           EmptyDict))

\* the summary, which holds the totals of Session.get_total_tokens
NextTokens ==
    \/ get_summary
    \/ get_llm_calls

SpecTokens == InitTokens /\ [][NextTokens]_vars

\* spans whose with-statements belong to interleaved coroutines of one
\* thread: any open span may be the next to exit
NextInterleaved ==
    \/ \E n \in SpanNames : span_enter(MaxInterleavedEvents, n, None)
    \/ \E i \in 1..Len(frames) : span_exit(MaxInterleavedEvents, i)
    \/ record_log(MaxInterleavedEvents)

SpecInterleaved == Init /\ [][NextInterleaved]_vars

----------------------------------------------------------------------------
(* Properties.                                                             *)

EventIds(evs) == {evs[i].id : i \in 1..Len(evs)}

LastEvent == events[Len(events)]

\* an event was appended by this step
Appended == Len(events') = Len(events) + 1

\* the open span frames, outermost first
RECURSIVE SpanFrames(_)
SpanFrames(fs) ==
    IF fs = <<>>
    THEN <<>>
    ELSE IF fs[1].kind = "span"
         THEN <<fs[1]>> \o SpanFrames(Tail(fs))
         ELSE SpanFrames(Tail(fs))

\* the start event ids of the open spans, outermost first
SpanIds(fs) == [i \in 1..Len(SpanFrames(fs)) |-> SpanFrames(fs)[i].event_id[1]]

\* the start event id of the innermost open span, if any
Innermost(fs) ==
    IF SpanIds(fs) = <<>> THEN None ELSE Some(SpanIds(fs)[Len(SpanIds(fs))])

\* C1: the event at (1-based) position i of session.events has id i: ids
\* start at 1 and increase by one in append order, without gaps or repeats.
SequentialIds == \A i \in 1..Len(events) : events[i].id = i

WitnessSequentialIds ==
    /\ Len(events) = MaxEvents
    /\ ended_at # None
    /\ Truthy(current_state)
    /\ LastEvent.id = MaxEvents

\* C2: an event recorded while spans are open, a span's start event
\* included, has the start event id of the innermost open span as its
\* parent_id (B's inside A and B, A's once B has exited), and an event
\* recorded while no span is open has no parent_id.
ParentIsInnermostOpenSpan ==
    [][(Appended /\ Len(frames') >= Len(frames))
         => events'[Len(events')].parent_id = Innermost(frames)]_vars

IsSpanEvent(e, status) ==
    e.type = "CUSTOM" /\ e.data.status = status

\* A starts, B starts inside it, an event, B exits, an event, A exits, an event
WitnessParentIsInnermostOpenSpan ==
    /\ Len(events) = 7
    /\ IsSpanEvent(events[1], "started") /\ events[1].parent_id = None
    /\ IsSpanEvent(events[2], "started") /\ events[2].parent_id = Some(1)
    /\ events[3].type = "LOG" /\ events[3].parent_id = Some(2)
    /\ IsSpanEvent(events[4], "completed")
    /\ events[5].type = "LOG" /\ events[5].parent_id = Some(1)
    /\ IsSpanEvent(events[6], "completed")
    /\ events[7].type = "LOG" /\ events[7].parent_id = None

\* C3: when the block of a span raises, the exit of the span still pops the
\* span stack, leaving the ids of the spans that were open when it was
\* entered, and appends the span's "completed" event; the next event gets
\* the parent_id of the enclosing span.
ExitRunsWhenBlockRaises ==
    [][(exc /\ Len(frames') < Len(frames))
         => /\ event_stack' = SpanIds(frames')
            /\ ParentOf(event_stack') = Innermost(frames')
            /\ Appended
            /\ IsSpanEvent(events'[Len(events')], "completed")
            /\ events'[Len(events')].data.span_start_id
                  = frames[Len(frames)].event_id[1]]_vars

\* two nested spans were both left by an exception
WitnessExitRunsWhenBlockRaises ==
    /\ exc
    /\ frames = <<>>
    /\ event_stack = <<>>
    /\ Len(events) >= 4
    /\ IsSpanEvent(LastEvent, "completed")
    /\ IsSpanEvent(events[Len(events) - 1], "completed")

\* C4: an event's parent_id, when present, is the id of an event earlier
\* in session.events, and is smaller than the event's own id.
ParentIsEarlierEvent ==
    \A i \in 1..Len(events) :
        events[i].parent_id # None
          => /\ \E j \in 1..(i - 1) : events[j].id = events[i].parent_id[1]
             /\ events[i].parent_id[1] < events[i].id

\* a chain of two parent links
WitnessParentIsEarlierEvent ==
    \E i \in 1..Len(events) :
        /\ events[i].parent_id # None
        /\ events[events[i].parent_id[1]].parent_id # None

\* C5: a step leaves the events already in session.events in place (the old
\* list is a prefix of the new one), and a step that takes an event id
\* appends exactly one event.
AppendOnly ==
    [][/\ Len(events') >= Len(events)
       /\ SubSeq(events', 1, Len(events)) = events
       /\ Len(events') <= Len(events) + 1
       /\ (event_counter' # event_counter => Appended)]_vars

WitnessAppendOnly ==
    /\ Len(events) = MaxEvents
    /\ events[1].type # LastEvent.type

\* C6: a snapshot, once stored, never changes; an event gets a snapshot
\* exactly when the live state is non-empty after it is recorded, and the
\* snapshot is that state, which for a state_change event maps the key to
\* the new value.
SnapshotIsStateAfterEvent ==
    [][/\ \A id \in DOMAIN state_snapshots :
            /\ id \in DOMAIN state_snapshots'
            /\ state_snapshots'[id] = state_snapshots[id]
       /\ Appended =>
            LET e == events'[Len(events')]
            IN /\ Truthy(current_state')
                    => /\ e.id \in DOMAIN state_snapshots'
                       /\ state_snapshots'[e.id] = current_state'
               /\ ~Truthy(current_state') => e.id \notin DOMAIN state_snapshots'
               /\ e.type = "STATE_CHANGE"
                    => /\ e.id \in DOMAIN state_snapshots'
                       /\ e.data.key \in DOMAIN state_snapshots'[e.id]
                       /\ state_snapshots'[e.id][e.data.key] = e.data.new_value]_vars

\* a snapshot that differs from the live state and from a later snapshot
WitnessSnapshotIsStateAfterEvent ==
    /\ rsession = None
    /\ 1 \in DOMAIN state_snapshots
    /\ 2 \in DOMAIN state_snapshots
    /\ state_snapshots[1] # state_snapshots[2]
    /\ state_snapshots[2] # current_state
    /\ events[2].type = "STATE_CHANGE"

\* C7: the keys of session.state_snapshots are ids of events of the session.
SnapshotKeysAreEventIds == DOMAIN state_snapshots \subseteq EventIds(events)

\* a sparse snapshot map: the first event has no snapshot, the second has
WitnessSnapshotKeysAreEventIds ==
    /\ Len(events) = 2
    /\ DOMAIN state_snapshots = {2}

\* the state after replaying the history up to and including the event with
\* id e: each state_change event's key -> new_value, in order
RECURSIVE ApplyChanges(_)
ApplyChanges(evs) ==
    IF evs = <<>>
    THEN EmptyDict
    ELSE LET n == Len(evs)
             before == ApplyChanges(SubSeq(evs, 1, n - 1))
         IN IF evs[n].type = "STATE_CHANGE"
            THEN DictSet(before, evs[n].data.key, evs[n].data.new_value)
            ELSE before

Replay(evs, e) ==
    LET upto == CHOOSE i \in 1..Len(evs) :
                    /\ evs[i].id = e
                    /\ \A j \in 1..(i - 1) : evs[j].id # e
    IN ApplyChanges(SubSeq(evs, 1, upto))

\* the last Replayer call was get_state(e) with an explicit event id e
AskedStateAt(e) ==
    /\ rsession # None
    /\ result.op = "get_state"
    /\ result.event_id = Some(e)

\* C8: for an event id that has a snapshot, the state get_state returns
\* equals the state obtained by replaying the history up to that event.
SnapshotAgreesWithReplay ==
    \A e \in 1..MaxSeededEvents :
        (AskedStateAt(e) /\ e \in DOMAIN rsession[1].state_snapshots)
          => result.value = Replay(rsession[1].events, e)

\* the indices of the state_change events with an id up to e
ChangesUpTo(evs, e) ==
    {i \in 1..Len(evs) : evs[i].type = "STATE_CHANGE" /\ evs[i].id <= e}

\* each changed key with the new_value of its latest change up to e
LatestChanges(evs, e) ==
    [k \in {evs[i].data.key : i \in ChangesUpTo(evs, e)} |->
        LET latest == CHOOSE i \in ChangesUpTo(evs, e) :
                          /\ evs[i].data.key = k
                          /\ \A j \in ChangesUpTo(evs, e) :
                                evs[j].data.key = k => j <= i
        IN evs[latest].data.new_value]

\* C9: in a session whose state changed only through record_state_change,
\* get_state(e) for the id e of an event of the session maps each key to the
\* new_value of the latest state_change of that key with an id up to e, and
\* holds no other key.
StateIsLatestChanges ==
    \A e \in 1..MaxStateEvents :
        (AskedStateAt(e) /\ e \in EventIds(rsession[1].events))
          => result.value = LatestChanges(rsession[1].events, e)

\* k changed to 1 at id 1 and to 2 at id 3: get_state(2) is {k: 1}
WitnessStateIsLatestChanges ==
    /\ AskedStateAt(2)
    /\ Len(rsession[1].events) = 4
    /\ rsession[1].events[1].data = [key |-> "k", old_value |-> None, new_value |-> 1]
    /\ rsession[1].events[2].type = "LOG"
    /\ rsession[1].events[3].data = [key |-> "k", old_value |-> None, new_value |-> 2]
    /\ result.value = [x \in {"k"} |-> 1]

\* C10: get_state called with an id that no event of the session has
\* signals an error.
MissingIdIsError ==
    \A e \in 1..(MaxStateEvents + 1) :
        (AskedStateAt(e) /\ e \notin EventIds(rsession[1].events))
          => result.raised

\* C11: once session.ended_at is set, no step changes session.events or
\* session.state_snapshots.
ClosedOnceEnded ==
    [][ended_at # None
         => (events' = events /\ state_snapshots' = state_snapshots)]_vars

\* a capture() block is left by this step
CaptureExited ==
    /\ Len(frames') < Len(frames)
    /\ frames[Len(frames)].kind = "capture"

\* C12: ended_at is absent at construction and is first set by the exit of
\* capture() or by save(); the exit of capture() sets it whether or not the
\* block raised; and a recording call is enabled outside capture() exactly
\* as inside it.
EndedAtIsAdvisory ==
    /\ ended_at = None
    /\ [][/\ (ended_at = None /\ ended_at' # None)
              => (CaptureExited \/ (file = None /\ file' # None))
          /\ CaptureExited => (ended_at' # None /\ ~recording')
          /\ (~exc /\ Len(events) < MaxEvents)
              => ENABLED record_log(MaxEvents)]_vars

\* a capture() block was left by the exception its block raised: no span
\* was ever opened, so the block that raised was capture()'s
WitnessEndedAtIsAdvisory ==
    /\ exc
    /\ frames = <<>>
    /\ events = <<>>
    /\ file = None
    /\ ended_at # None
    /\ ~recording

\* the events of the session the Replayer holds
REvents == rsession[1].events

\* the smallest member of a non-empty set of integers
Min(S) == CHOOSE x \in S : \A y \in S : x <= y

\* C13: the cursor of a Replayer is an integer from 0 to len(events).
PositionInRange ==
    rsession # None => position \in 0..Len(REvents)

\* a step() refused at the end of the longest session
WitnessPositionInRange ==
    /\ Len(REvents) = MaxNavEvents
    /\ position = MaxNavEvents
    /\ result.op = "step"
    /\ result.value = None

\* C14: step() at cursor p < len(events) returns events[p], which is what
\* peek() returns there, and moves the cursor to p+1; at p = len(events) it
\* returns none and leaves the cursor.  step_back() at p > 0 moves the
\* cursor to p-1 and returns events[p-1]; at p = 0 it returns none and
\* leaves the cursor.
StepAndStepBack ==
    [][/\ result'.op = "step" =>
            IF position < Len(REvents)
            THEN /\ result'.value = Some(At(REvents, position))
                 /\ result'.value = peek_value(rsession[1], position)
                 /\ position' = position + 1
            ELSE result'.value = None /\ position' = position
       /\ result'.op = "step_back" =>
            IF position > 0
            THEN /\ result'.value = Some(At(REvents, position - 1))
                 /\ position' = position - 1
            ELSE result'.value = None /\ position' = position]_vars

\* step_back() gave back the event the step() before it had returned
WitnessStepAndStepBack ==
    /\ Len(REvents) = MaxNavEvents
    /\ result.op = "step_back"
    /\ result.value = consumed
    /\ consumed = Some(PlainEvent(3))
    /\ position = 2

\* C15 as stated: current() returns the last event step() consumed, and
\* none at position 0.
CurrentIsLastConsumed ==
    result.op = "current"
      => result.value = (IF position = 0 THEN None ELSE consumed)

\* C15 as amended: current() returns the event just before the cursor,
\* events[position-1], and none at position 0; right after a step() or a
\* continue_to_breakpoint() that moved the cursor, that event is the last
\* one step() consumed.
CurrentIsEventBeforeCursor ==
    [][/\ result'.op = "current" =>
            result'.value = (IF position' = 0
                             THEN None
                             ELSE Some(At(REvents, position' - 1)))
       /\ (result'.op \in {"step", "continue_to_breakpoint"}
             /\ position' # position)
            => current_value(rsession[1], position') = consumed']_vars

\* current() after the cursor went back: not the event step() consumed last
WitnessCurrentIsEventBeforeCursor ==
    /\ result.op = "current"
    /\ position = 2
    /\ result.value = Some(PlainEvent(2))
    /\ consumed = Some(PlainEvent(3))

\* the 0-based indices of the events with the id
IndicesOf(evs, id) == {i \in 0..(Len(evs) - 1) : At(evs, i).id = id}

\* C16: goto(event_id=x) returns the first event with id x and leaves the
\* cursor just after it; goto(position=p) with 0 <= p < len(events) returns
\* events[p] and leaves the cursor just after it; when no event has id x,
\* or p is out of bounds, goto returns none and leaves the cursor.
GotoJumps ==
    [][result'.op = "goto" =>
         LET x == result'.event_id
             p == result'.index
         IN /\ x # None =>
                 IF IndicesOf(REvents, x[1]) # {}
                 THEN LET i == Min(IndicesOf(REvents, x[1]))
                      IN /\ result'.value = Some(At(REvents, i))
                         /\ position' = i + 1
                 ELSE result'.value = None /\ position' = position
            /\ (x = None /\ p # None) =>
                 IF 0 <= p[1] /\ p[1] < Len(REvents)
                 THEN /\ result'.value = Some(At(REvents, p[1]))
                      /\ position' = p[1] + 1
                 ELSE result'.value = None /\ position' = position
            /\ result'.raised = FALSE]_vars

\* a jump to the first of two events with the same id
WitnessGotoJumps ==
    /\ result.op = "goto"
    /\ result.event_id = Some(1)
    /\ Len(REvents) = 2
    /\ REvents[1].id = 1
    /\ REvents[2].id = 1
    /\ position = 1

\* C17: continue_to_breakpoint() at cursor p returns the first event at an
\* index >= p whose id is a breakpoint and leaves the cursor just after it;
\* with no such event it returns none and leaves the cursor at len(events).
ContinueStopsAtBreakpoint ==
    [][result'.op = "continue_to_breakpoint" =>
         LET hits == {i \in position..(Len(REvents) - 1) :
                         Contains(breakpoints, At(REvents, i).id)}
         IN IF hits # {}
            THEN /\ result'.value = Some(At(REvents, Min(hits)))
                 /\ position' = Min(hits) + 1
            ELSE /\ result'.value = None
                 /\ position' = Len(REvents)]_vars

\* five events, breakpoint at id 3: the event with id 3, the cursor at 3
WitnessContinueStopsAtBreakpoint ==
    /\ Len(REvents) = 5
    /\ breakpoints = <<3>>
    /\ result.op = "continue_to_breakpoint"
    /\ result.value = Some(PlainEvent(3))
    /\ position = 3

\* C18: filter(event_type, tags, search) returns, in session order, exactly
\* the events that pass every filter that was given (not None): type equal
\* to event_type, at least one of the tags among the event's tags, search
\* found without regard to case in the serialized data; get_llm_calls,
\* get_tool_calls and get_errors return the events of their type.
Passes(e, event_type, tags, search) ==
    /\ event_type # None => e.type = event_type[1]
    /\ tags # None => Elems(tags[1]) \cap Elems(e.tags) # {}
    /\ search # None => In(lower(search[1]), lower(json_dumps(e.data)))

FilterKeepsExactlyMatches ==
    /\ result.op = "filter" =>
         result.value = SelectSeq(REvents,
                                  LAMBDA e : Passes(e, result.event_type,
                                                    result.tags,
                                                    result.search))
    /\ result.op = "get_llm_calls" =>
         result.value = SelectSeq(REvents, LAMBDA e : e.type = "LLM_CALL")
    /\ result.op = "get_tool_calls" =>
         result.value = SelectSeq(REvents, LAMBDA e : e.type = "TOOL_CALL")
    /\ result.op = "get_errors" =>
         result.value = SelectSeq(REvents, LAMBDA e : e.type = "ERROR")

\* C20: diff(other) pairs the output events of the two sessions by index and
\* returns one entry, with that index and the two data values, for exactly
\* the indices below both output counts at which the data differ;
\* same_outputs is true iff there is no entry.
DiffReportsUnequalOutputs ==
    result.op = "diff" =>
      LET so == OfType(REvents, "OUTPUT")
          oo == OfType(result.other.events, "OUTPUT")
          m == Len(so)
          n == Len(oo)
          entries == result.value.output_diffs
          unequal == {i \in 0..(Min({m, n}) - 1) :
                         At(so, i).data # At(oo, i).data}
      IN /\ {entries[k].index : k \in 1..Len(entries)} = unequal
         /\ Len(entries) = Cardinality(unequal)
         /\ \A k \in 1..Len(entries) :
               /\ entries[k].self = At(so, entries[k].index).data
               /\ entries[k].other = At(oo, entries[k].index).data
         /\ result.value.same_outputs = (entries = <<>>)

\* two outputs against three, the second pair differing: one entry, at
\* index 1, and nothing for the third output
WitnessDiffReportsUnequalOutputs ==
    /\ result.op = "diff"
    /\ Len(OfType(REvents, "OUTPUT")) = 2
    /\ Len(OfType(result.other.events, "OUTPUT")) = 3
    /\ Len(result.value.output_diffs) = 1
    /\ result.value.output_diffs[1].index = 1
    /\ ~result.value.same_outputs

NavigationOps == {"step", "step_back", "goto", "reset",
                  "continue_to_breakpoint"}

BreakpointOps == {"add_breakpoint", "remove_breakpoint"}

QueryOps == {"current", "peek", "get_state", "filter", "get_llm_calls",
             "get_tool_calls", "get_errors", "iter_events", "get_summary",
             "diff"}

\* C19: no Replayer operation changes the events, the metadata or the
\* state_snapshots of the session; navigation leaves the breakpoints,
\* add_breakpoint and remove_breakpoint leave the cursor, and the queries
\* leave both.
OperationsKeepTheirFrame ==
    [][/\ result'.op \in NavigationOps \cup BreakpointOps \cup QueryOps
       /\ rsession'[1].events = rsession[1].events
       /\ rsession'[1].metadata = rsession[1].metadata
       /\ rsession'[1].state_snapshots = rsession[1].state_snapshots
       /\ result'.op \in NavigationOps => breakpoints' = breakpoints
       /\ result'.op \in BreakpointOps => position' = position
       /\ result'.op \in QueryOps =>
            (position' = position /\ breakpoints' = breakpoints)]_vars

\* a query answered with the cursor past the second event and a breakpoint
\* set
WitnessOperationsKeepTheirFrame ==
    /\ result.op = "filter"
    /\ result.search = Some("aB")
    /\ Len(result.value) = 1
    /\ position = 2
    /\ breakpoints = <<2>>

\* C21: Session.from_dict(session.to_dict()) equals the session the Recorder
\* holds: the same session_id, started_at, ended_at and metadata, the same
\* events in the same order with the same fields, the same snapshots under
\* integer keys.
RoundTripIsIdentity ==
    LET loaded == Session_from_dict(Session_to_dict(session))
    IN /\ loaded.session_id = session.session_id
       /\ loaded.started_at = session.started_at
       /\ loaded.ended_at = session.ended_at
       /\ loaded.metadata = session.metadata
       /\ Len(loaded.events) = Len(events)
       /\ \A i \in 1..Len(events) :
             /\ loaded.events[i].id = events[i].id
             /\ loaded.events[i].type = events[i].type
             /\ loaded.events[i].data = events[i].data
             /\ loaded.events[i].duration_ms = events[i].duration_ms
             /\ loaded.events[i].parent_id = events[i].parent_id
             /\ loaded.events[i].tags = events[i].tags
             /\ loaded.events[i].timestamp = events[i].timestamp
       /\ DOMAIN loaded.state_snapshots = DOMAIN state_snapshots
       /\ \A id \in DOMAIN state_snapshots :
             loaded.state_snapshots[id] = state_snapshots[id]
       /\ loaded = session

\* a saved session with a state change recorded inside a span, its snapshot
\* taken
WitnessRoundTripIsIdentity ==
    /\ Len(events) = 2
    /\ events[2].type = "STATE_CHANGE"
    /\ events[2].parent_id = Some(1)
    /\ 2 \in DOMAIN state_snapshots
    /\ ended_at # None
    /\ file # None

KnownTags == {"input", "output", "llm_call", "tool_call", "state_change",
              "error", "log", "custom"}

\* the type tags of the events of a document
TagsOf(data) == {data.events[i].type : i \in 1..Len(data.events)}

\* C22: loading a document in which some event's type is not one of the
\* eight known tags raises and produces no Replayer; a load that succeeds
\* gives every event the type its tag names, never custom for another tag.
UnknownTypeIsRejected ==
    result.op = "from_dict" =>
      /\ ~(TagsOf(result.data) \subseteq KnownTags)
           => (result.raised /\ rsession = None)
      /\ ~result.raised =>
           /\ rsession # None
           /\ Len(REvents) = Len(result.data.events)
           /\ \A i \in 1..Len(REvents) :
                 EventType[REvents[i].type] = result.data.events[i].type

\* a document whose second event has an unknown tag was rejected
WitnessUnknownTypeIsRejected ==
    /\ result.op = "from_dict"
    /\ Len(result.data.events) = 2
    /\ result.data.events[1].type = "log"
    /\ result.data.events[2].type = "bogus"
    /\ result.raised
    /\ rsession = None

\* C23: a document whose event ids repeat or do not strictly increase is
\* rejected, so the events of a loaded session have strictly increasing ids.
LoadedIdsStrictlyIncrease ==
    /\ (/\ result.op = "from_dict"
        /\ \E i \in 1..(Len(result.data.events) - 1) :
              result.data.events[i].id >= result.data.events[i + 1].id)
         => (result.raised /\ rsession = None)
    /\ rsession # None =>
         \A i \in 1..(Len(REvents) - 1) : REvents[i].id < REvents[i + 1].id

\* the count an event adds to a total: that of its tokens mapping if it is
\* an LLM call that has the mapping and the count, 0 otherwise
CountOf(e, key) ==
    IF e.type = "LLM_CALL" /\ "tokens" \in DOMAIN e.data
         /\ key \in DOMAIN e.data.tokens
    THEN e.data.tokens[key]
    ELSE 0

\* the sum of the counts of the first n events
RECURSIVE TotalOf(_, _, _)
TotalOf(evs, n, key) ==
    IF n = 0 THEN 0 ELSE TotalOf(evs, n - 1, key) + CountOf(evs[n], key)

\* C24: get_total_tokens() returns as input and output the sums of
\* tokens.input and tokens.output over the llm_call events, a missing count
\* or mapping counting as 0 and other events ignored, and as total their sum.
TotalTokensAreSums ==
    result.op = "get_summary" =>
      LET totals == result.value.total_tokens
      IN /\ totals.input = TotalOf(REvents, Len(REvents), "input")
         /\ totals.output = TotalOf(REvents, Len(REvents), "output")
         /\ totals.total = totals.input + totals.output

\* LLM calls with tokens {10, 5}, {0, 0}, {7, 3}: 17, 8 and 25
WitnessTotalTokensAreSums ==
    /\ result.op = "get_summary"
    /\ Len(REvents) = 3
    /\ \A i \in 1..3 : REvents[i].type = "LLM_CALL"
    /\ <<CountOf(REvents[1], "input"), CountOf(REvents[1], "output")>>
         = <<10, 5>>
    /\ <<CountOf(REvents[2], "input"), CountOf(REvents[2], "output")>>
         = <<0, 0>>
    /\ <<CountOf(REvents[3], "input"), CountOf(REvents[3], "output")>>
         = <<7, 3>>
    /\ result.value.total_tokens = [input |-> 17, output |-> 8, total |-> 25]

\* the positions of the events that complete the span started by event id
CompletionsOf(id) ==
    {j \in 1..Len(events) :
        /\ IsSpanEvent(events[j], "completed")
        /\ events[j].data.span_start_id = id}

\* C25: with properly nested spans, a span that has exited has exactly one
\* started and one completed event; the completed event comes later, its
\* span_start_id is the started event's id and its parent_id is the started
\* event's parent_id, never the span's own start id.  A span still open has
\* no completed event, and every completed event belongs to a started one.
ExitedSpanHasItsTwoEvents ==
    /\ \A i \in 1..Len(events) :
          IsSpanEvent(events[i], "started") =>
            IF events[i].id \in Elems(SpanIds(frames))
            THEN CompletionsOf(events[i].id) = {}
            ELSE /\ Cardinality(CompletionsOf(events[i].id)) = 1
                 /\ \A j \in CompletionsOf(events[i].id) :
                       /\ j > i
                       /\ events[j].parent_id = events[i].parent_id
                       /\ events[j].parent_id # Some(events[i].id)
    /\ \A j \in 1..Len(events) :
          IsSpanEvent(events[j], "completed") =>
            Cardinality({i \in 1..Len(events) :
                            /\ IsSpanEvent(events[i], "started")
                            /\ events[i].id = events[j].data.span_start_id})
              = 1

\* A starts, B starts inside it, an event, B's block raises and B exits, A
\* exits: B is completed under A, A under nothing
WitnessExitedSpanHasItsTwoEvents ==
    /\ Len(events) = 5
    /\ frames = <<>>
    /\ exc
    /\ IsSpanEvent(events[1], "started")
    /\ IsSpanEvent(events[2], "started")
    /\ events[3].type = "LOG"
    /\ IsSpanEvent(events[4], "completed")
    /\ events[4].data.span_start_id = 2
    /\ events[4].parent_id = Some(1)
    /\ IsSpanEvent(events[5], "completed")
    /\ events[5].data.span_start_id = 1
    /\ events[5].parent_id = None

\* C26: when spans exit out of LIFO order each exit removes its own start
\* id from the span stack, so the stack always holds the start ids of the
\* spans still open (empty once all have exited), and an event recorded
\* while spans are open has the innermost open one as its parent.
ExitRemovesOwnStartId ==
    /\ event_stack = <<>>
    /\ [][/\ event_stack' = SpanIds(frames')
          /\ (Appended /\ events'[Len(events')].type = "LOG")
               => events'[Len(events')].parent_id = Innermost(frames)]_vars

====
